---- MODULE Spec2Model ----
(***************************************************************************)
(* Model of the Wireshark MCP server (wireshark_mcp/wireshark_mcp_server). *)
(*                                                                         *)
(* A Python str is a sequence of one-character strings, so that the text   *)
(* operations of the code (strip, split, rstrip, f-string formatting of an *)
(* int) are computed and not assumed.  A Python dict with string keys is a *)
(* record.  The keyword arguments of a tool call are a function from the   *)
(* names of the arguments the caller supplied to their values.             *)
(***************************************************************************)
EXTENDS Integers, Sequences, FiniteSets, TLC

VARIABLES
    pc,            \* position of the __main__ block: start, checked, serving, exited
    exitStatus,    \* the process's exit status once pc = "exited", else -1
    tool,          \* the tshark binary on this host: ok, missing, noexec
    startupCheck,  \* what the install check of __main__ returned: unknown, true, false, raised
    sessions,      \* SSE sessions open now
    accepted,      \* SSE sessions opened since the process started
    now,           \* int(time.time())
    listing,       \* what tshark -D prints on this host
    call,          \* the last tool call dispatched: [op, args]
    spawned,       \* the processes the last tool call asked subprocess.run for: [argv, out]
    result         \* how the last tool call ended: Return(value) or Raise(exception)

vars == <<pc, exitStatus, tool, startupCheck, sessions, accepted, now, listing, call, spawned, result>>

(***************************************************************************)
(* Bounds of the model.                                                    *)
(***************************************************************************)
MaxSessions == 2
ClockStart == 9
MaxTicks == 2
MaxLen == 5

(***************************************************************************)
(* Python values.                                                          *)
(***************************************************************************)
\* Python's None: distinct from every str, whose elements are single characters.
None == <<"None">>

\* bool(s) of an Optional[str]: None and "" are falsy.
TruthyStr(s) == s # None /\ s # <<>>

\* bool(n) of an int: 0 is falsy.
TruthyInt(n) == n # 0

Digits == <<"0", "1", "2", "3", "4", "5", "6", "7", "8", "9">>

\* str(n) of an int, as the f-strings and str(limit) format it.
RECURSIVE IntToStr(_)
IntToStr(n) ==
    IF n < 0 THEN <<"-">> \o IntToStr(-n)
    ELSE IF n < 10 THEN <<Digits[n + 1]>>
    ELSE IntToStr(n \div 10) \o <<Digits[(n % 10) + 1]>>

SetMin(S) == CHOOSE x \in S : \A y \in S : x <= y
SetMax(S) == CHOOSE x \in S : \A y \in S : x >= y

\* The characters str.strip() removes, among those the model's texts are made of.
Whitespace == {" ", "\t", "\n"}

\* s.strip()
StrStrip(s) ==
    LET keep == {i \in 1..Len(s) : s[i] \notin Whitespace}
    IN  IF keep = {} THEN <<>> ELSE SubSeq(s, SetMin(keep), SetMax(keep))

\* s.split(sep) for a one-character sep
RECURSIVE StrSplit(_, _)
StrSplit(s, sep) ==
    LET at == {i \in 1..Len(s) : s[i] = sep}
    IN  IF at = {} THEN <<s>>
        ELSE <<SubSeq(s, 1, SetMin(at) - 1)>>
                 \o StrSplit(SubSeq(s, SetMin(at) + 1, Len(s)), sep)

\* s.split(sep, 1) for a one-character sep
StrSplit1(s, sep) ==
    LET at == {i \in 1..Len(s) : s[i] = sep}
    IN  IF at = {} THEN <<s>>
        ELSE <<SubSeq(s, 1, SetMin(at) - 1), SubSeq(s, SetMin(at) + 1, Len(s))>>

\* s.rstrip(ch) for a one-character ch
RECURSIVE StrRStrip(_, _)
StrRStrip(s, ch) ==
    IF s # <<>> /\ s[Len(s)] = ch THEN StrRStrip(SubSeq(s, 1, Len(s) - 1), ch) ELSE s

\* How a Python call ends.
Return(v) == [kind |-> "return", value |-> v]
Raise(e) == [kind |-> "raise", exc |-> e]

\* The exception classes of the code and their subclasses.
SubclassesOf(cls) ==
    CASE cls = "SubprocessError" -> {"SubprocessError", "CalledProcessError", "TimeoutExpired"}
      [] cls = "FileNotFoundError" -> {"FileNotFoundError"}
      [] cls = "OSError" -> {"OSError", "FileNotFoundError", "PermissionError"}
      [] cls = "Exception" -> {"SubprocessError", "CalledProcessError", "TimeoutExpired",
                               "OSError", "FileNotFoundError", "PermissionError", "Exception"}

\* isinstance(e, cls)
IsInstance(e, cls) == e.type \in SubclassesOf(cls)

(***************************************************************************)
(* Literal strings of the source.                                          *)
(***************************************************************************)
TSHARK == <<"t", "s", "h", "a", "r", "k">>
OptVersion == <<"-", "-", "v", "e", "r", "s", "i", "o", "n">>
OptD == <<"-", "D">>
OptI == <<"-", "i">>
OptA == <<"-", "a">>
OptF == <<"-", "f">>
OptW == <<"-", "w">>
OptR == <<"-", "r">>
OptY == <<"-", "Y">>
OptC == <<"-", "c">>
OptQ == <<"-", "q">>
OptZ == <<"-", "z">>
DurationPrefix == <<"d", "u", "r", "a", "t", "i", "o", "n", ":">>
CapturePrefix == <<"c", "a", "p", "t", "u", "r", "e", "_">>
PcapSuffix == <<".", "p", "c", "a", "p">>

DefaultDuration == 10
DefaultLimit == 100

\* supported_types of analyze_capture, in the dict's insertion order.
supported_types ==
    << <<(<<"c", "o", "n", "v", "e", "r", "s", "a", "t", "i", "o", "n", "s">>),
         (<<"c", "o", "n", "v", ",", "i", "p">>)>>,
       <<(<<"e", "n", "d", "p", "o", "i", "n", "t", "s">>),
         (<<"e", "n", "d", "p", "o", "i", "n", "t", "s", ",", "i", "p">>)>>,
       <<(<<"p", "r", "o", "t", "o", "c", "o", "l", "s">>),
         (<<"i", "o", ",", "p", "h", "s">>)>>,
       <<(<<"h", "t", "t", "p">>),
         (<<"h", "t", "t", "p", ",", "t", "r", "e", "e">>)>>,
       <<(<<"d", "n", "s">>),
         (<<"d", "n", "s", ",", "t", "r", "e", "e">>)>> >>

\* list(supported_types.keys())
SupportedKeys == [i \in 1..Len(supported_types) |-> supported_types[i][1]]

\* analysis_type in supported_types
InSupported(name) == \E i \in 1..Len(supported_types) : supported_types[i][1] = name

\* supported_types[name]
Selector(name) ==
    supported_types[CHOOSE i \in 1..Len(supported_types) : supported_types[i][1] = name][2]

\* repr() of a list of str, as the f-string of the error message formats it.
RECURSIVE ListItems(_)
ListItems(l) ==
    IF l = <<>> THEN <<>>
    ELSE <<"'">> \o Head(l) \o <<"'">>
            \o (IF Len(l) > 1 THEN <<",", " ">> ELSE <<>>) \o ListItems(Tail(l))

ListRepr(l) == <<"[">> \o ListItems(l) \o <<"]">>

\* The fixed parts of the error message of analyze_capture (the source's text is
\* Chinese; the model keeps its shape: prefix, the name, separator, the key list).
UnsupportedPrefix == <<"u", "n", "s", "u", "p", "p", "o", "r", "t", "e", "d", ":", " ">>
UnsupportedMiddle == <<".", " ", "s", "u", "p", "p", "o", "r", "t", "e", "d", ":", " ">>

UnsupportedMessage(name) ==
    UnsupportedPrefix \o name \o UnsupportedMiddle \o ListRepr(SupportedKeys)

(***************************************************************************)
(* subprocess.run.  out is what the operating system does with the spawn:  *)
(* the binary is not found, it cannot be executed, or the process runs to  *)
(* completion with an exit status and its captured output.                 *)
(***************************************************************************)
MsgENOENT == <<"E", "N", "O", "E", "N", "T">>
MsgEACCES == <<"E", "A", "C", "C", "E", "S">>
MsgNonZero == <<"n", "o", "n", "-", "z", "e", "r", "o">>

subprocess_run(cmd, check, out) ==
    CASE out.kind = "FileNotFoundError" ->
            Raise([type |-> "FileNotFoundError", msg |-> MsgENOENT])
      [] out.kind = "PermissionError" ->
            Raise([type |-> "PermissionError", msg |-> MsgEACCES])
      [] out.kind = "completed" ->
            IF check /\ out.returncode # 0
            THEN Raise([type |-> "CalledProcessError", msg |-> MsgNonZero])
            ELSE Return([returncode |-> out.returncode,
                         stdout |-> out.stdout, stderr |-> out.stderr])

Spawn(cmd, out) == <<[argv |-> cmd, out |-> out]>>

(***************************************************************************)
(* class WiresharkTools.  Each operator takes the arguments of the method  *)
(* and what the operating system does with the spawn, and gives            *)
(* [res, spawned]: how the call ends and the processes it asked for.       *)
(***************************************************************************)
\* Variant: the version query without check=True, so that the exit status is
\* not looked at.
check_wireshark_installed_unchecked(out) ==
    LET cmd == <<TSHARK, OptVersion>>
        r == subprocess_run(cmd, FALSE, out)
    IN  [spawned |-> Spawn(cmd, out),
         res |-> IF r.kind = "return" THEN Return(TRUE)
                 ELSE IF IsInstance(r.exc, "SubprocessError")
                         \/ IsInstance(r.exc, "FileNotFoundError")
                      THEN Return(FALSE)
                      ELSE r]

check_wireshark_installed(out) ==
    LET cmd == <<TSHARK, OptVersion>>
        r == subprocess_run(cmd, TRUE, out)
    IN  [spawned |-> Spawn(cmd, out),
         res |-> IF r.kind = "return" THEN Return(TRUE)
                 ELSE IF IsInstance(r.exc, "SubprocessError")
                         \/ IsInstance(r.exc, "FileNotFoundError")
                      THEN Return(FALSE)
                      ELSE r]

\* Variant: line.split(None, 1), which cuts at the first run of white space.
ParseLine_split_none(line) ==
    LET ink == {i \in 1..Len(line) : line[i] \notin Whitespace}
        rest == IF ink = {} THEN <<>> ELSE SubSeq(line, SetMin(ink), Len(line))
        ws == {i \in 1..Len(rest) : rest[i] \in Whitespace}
        after == {i \in 1..Len(rest) : i > SetMin(ws) /\ rest[i] \notin Whitespace}
    IN  IF ws = {} \/ after = {} THEN <<>>
        ELSE <<[index |-> StrRStrip(SubSeq(rest, 1, SetMin(ws) - 1), "."),
                interface |-> SubSeq(rest, SetMin(after), Len(rest))]>>

\* The body of the loop over the lines of tshark -D.
ParseLine(line) ==
    IF line = <<>> THEN <<>>
    ELSE LET parts == StrSplit1(line, " ")
         IN  IF Len(parts) > 1
             THEN <<[index |-> StrRStrip(parts[1], "."), interface |-> parts[2]]>>
             ELSE <<>>

\* The loop: interfaces.append for each line, in the order of the lines.
RECURSIVE ParseInterfaceLines(_)
ParseInterfaceLines(lines) ==
    IF lines = <<>> THEN <<>>
    ELSE ParseLine(Head(lines)) \o ParseInterfaceLines(Tail(lines))

get_available_interfaces(out) ==
    LET cmd == <<TSHARK, OptD>>
        r == subprocess_run(cmd, TRUE, out)
    IN  [spawned |-> Spawn(cmd, out),
         res |-> IF r.kind = "return"
                 THEN Return(ParseInterfaceLines(StrSplit(StrStrip(r.value.stdout), "\n")))
                 ELSE IF IsInstance(r.exc, "SubprocessError") THEN Return(<<>>)
                      ELSE r]

\* Variant: a run that exits with a non-zero status also reports its stderr
\* as the error of the result.
capture_packets_error_on_failure(interface, duration, filter_str, output_file, out) ==
    LET cmd == <<TSHARK, OptI, interface, OptA, DurationPrefix \o IntToStr(duration)>>
                 \o (IF TruthyStr(filter_str) THEN <<OptF, filter_str>> ELSE <<>>)
                 \o (IF TruthyStr(output_file) THEN <<OptW, output_file>> ELSE <<>>)
        r == subprocess_run(cmd, FALSE, out)
        ok == [success |-> r.value.returncode = 0,
               stdout |-> r.value.stdout,
               stderr |-> r.value.stderr,
               output_file |-> IF TruthyStr(output_file) THEN output_file ELSE None]
    IN  [spawned |-> Spawn(cmd, out),
         res |-> IF r.kind = "return"
                 THEN Return(IF r.value.returncode = 0 THEN ok
                             ELSE ok @@ ("error" :> r.value.stderr))
                 ELSE IF IsInstance(r.exc, "SubprocessError")
                      THEN Return([success |-> FALSE, error |-> r.exc.msg])
                      ELSE r]

\* Variant: the duration bound is added only for a positive duration.
capture_packets_positive_only(interface, duration, filter_str, output_file, out) ==
    LET cmd == <<TSHARK, OptI, interface>>
                 \o (IF duration > 0 THEN <<OptA, DurationPrefix \o IntToStr(duration)>>
                     ELSE <<>>)
                 \o (IF TruthyStr(filter_str) THEN <<OptF, filter_str>> ELSE <<>>)
                 \o (IF TruthyStr(output_file) THEN <<OptW, output_file>> ELSE <<>>)
        r == subprocess_run(cmd, FALSE, out)
    IN  [spawned |-> Spawn(cmd, out),
         res |-> IF r.kind = "return"
                 THEN Return([success |-> r.value.returncode = 0,
                              stdout |-> r.value.stdout,
                              stderr |-> r.value.stderr,
                              output_file |-> IF TruthyStr(output_file)
                                              THEN output_file ELSE None])
                 ELSE IF IsInstance(r.exc, "SubprocessError")
                      THEN Return([success |-> FALSE, error |-> r.exc.msg])
                      ELSE r]

\* Variant: the capture run with check=True, so that a non-zero exit status
\* raises CalledProcessError and ends in the except clause.
capture_packets_checked(interface, duration, filter_str, output_file, out) ==
    LET cmd == <<TSHARK, OptI, interface, OptA, DurationPrefix \o IntToStr(duration)>>
                 \o (IF TruthyStr(filter_str) THEN <<OptF, filter_str>> ELSE <<>>)
                 \o (IF TruthyStr(output_file) THEN <<OptW, output_file>> ELSE <<>>)
        r == subprocess_run(cmd, TRUE, out)
    IN  [spawned |-> Spawn(cmd, out),
         res |-> IF r.kind = "return"
                 THEN Return([success |-> r.value.returncode = 0,
                              stdout |-> r.value.stdout,
                              stderr |-> r.value.stderr,
                              output_file |-> IF TruthyStr(output_file)
                                              THEN output_file ELSE None])
                 ELSE IF IsInstance(r.exc, "SubprocessError")
                      THEN Return([success |-> FALSE, error |-> r.exc.msg])
                      ELSE r]

capture_packets(interface, duration, filter_str, output_file, out) ==
    LET cmd == <<TSHARK, OptI, interface, OptA, DurationPrefix \o IntToStr(duration)>>
                 \o (IF TruthyStr(filter_str) THEN <<OptF, filter_str>> ELSE <<>>)
                 \o (IF TruthyStr(output_file) THEN <<OptW, output_file>> ELSE <<>>)
        r == subprocess_run(cmd, FALSE, out)
    IN  [spawned |-> Spawn(cmd, out),
         res |-> IF r.kind = "return"
                 THEN Return([success |-> r.value.returncode = 0,
                              stdout |-> r.value.stdout,
                              stderr |-> r.value.stderr,
                              output_file |-> IF TruthyStr(output_file)
                                              THEN output_file ELSE None])
                 ELSE IF IsInstance(r.exc, "SubprocessError")
                      THEN Return([success |-> FALSE, error |-> r.exc.msg])
                      ELSE r]

\* Variant: the record limit is always passed on, 0 included.
read_capture_file_always_limit(file_path, filter_str, limit, out) ==
    LET cmd == <<TSHARK, OptR, file_path>>
                 \o (IF TruthyStr(filter_str) THEN <<OptY, filter_str>> ELSE <<>>)
                 \o <<OptC, IntToStr(limit)>>
        r == subprocess_run(cmd, FALSE, out)
    IN  [spawned |-> Spawn(cmd, out),
         res |-> IF r.kind = "return"
                 THEN Return([success |-> r.value.returncode = 0,
                              stdout |-> r.value.stdout,
                              stderr |-> r.value.stderr])
                 ELSE IF IsInstance(r.exc, "SubprocessError")
                      THEN Return([success |-> FALSE, error |-> r.exc.msg])
                      ELSE r]

read_capture_file(file_path, filter_str, limit, out) ==
    LET cmd == <<TSHARK, OptR, file_path>>
                 \o (IF TruthyStr(filter_str) THEN <<OptY, filter_str>> ELSE <<>>)
                 \o (IF TruthyInt(limit) THEN <<OptC, IntToStr(limit)>> ELSE <<>>)
        r == subprocess_run(cmd, FALSE, out)
    IN  [spawned |-> Spawn(cmd, out),
         res |-> IF r.kind = "return"
                 THEN Return([success |-> r.value.returncode = 0,
                              stdout |-> r.value.stdout,
                              stderr |-> r.value.stderr])
                 ELSE IF IsInstance(r.exc, "SubprocessError")
                      THEN Return([success |-> FALSE, error |-> r.exc.msg])
                      ELSE r]

\* Variant: the analysis type is looked up after the run instead of before it
\* (an unknown name is passed on as the selector).
analyze_capture_late_check(file_path, analysis_type, out) ==
    LET cmd == <<TSHARK, OptR, file_path, OptQ, OptZ,
                 IF InSupported(analysis_type) THEN Selector(analysis_type)
                 ELSE analysis_type>>
        r == subprocess_run(cmd, FALSE, out)
    IN  [spawned |-> Spawn(cmd, out),
         res |-> IF ~InSupported(analysis_type)
                 THEN Return([success |-> FALSE,
                              error |-> UnsupportedMessage(analysis_type)])
                 ELSE IF r.kind = "return"
                 THEN Return([success |-> r.value.returncode = 0,
                              stdout |-> r.value.stdout,
                              stderr |-> r.value.stderr])
                 ELSE IF IsInstance(r.exc, "SubprocessError")
                      THEN Return([success |-> FALSE, error |-> r.exc.msg])
                      ELSE r]

analyze_capture(file_path, analysis_type, out) ==
    IF ~InSupported(analysis_type)
    THEN [spawned |-> <<>>,
          res |-> Return([success |-> FALSE, error |-> UnsupportedMessage(analysis_type)])]
    ELSE LET cmd == <<TSHARK, OptR, file_path, OptQ, OptZ, Selector(analysis_type)>>
             r == subprocess_run(cmd, FALSE, out)
         IN  [spawned |-> Spawn(cmd, out),
              res |-> IF r.kind = "return"
                      THEN Return([success |-> r.value.returncode = 0,
                                   stdout |-> r.value.stdout,
                                   stderr |-> r.value.stderr])
                      ELSE IF IsInstance(r.exc, "SubprocessError")
                           THEN Return([success |-> FALSE, error |-> r.exc.msg])
                           ELSE r]

(***************************************************************************)
(* The registered tools.  args maps the names of the supplied arguments to *)
(* their values; an argument left out takes the default of the signature.  *)
(***************************************************************************)
Arg(args, name, default) == IF name \in DOMAIN args THEN args[name] ELSE default

wireshark_check_installation(args, out) ==
    LET c == check_wireshark_installed(out)
    IN  [spawned |-> c.spawned,
         res |-> IF c.res.kind = "return" THEN Return([installed |-> c.res.value])
                 ELSE c.res]

wireshark_get_interfaces(args, out) ==
    LET c == get_available_interfaces(out)
    IN  [spawned |-> c.spawned,
         res |-> IF c.res.kind = "return" THEN Return([interfaces |-> c.res.value])
                 ELSE c.res]

\* f"capture_{int(time.time())}.pcap"
SynthesizedName(t) == CapturePrefix \o IntToStr(t) \o PcapSuffix

\* Variant: no file name is synthesized when the caller gives none.
wireshark_capture_packets_no_default(args, t, out) ==
    LET c == capture_packets(args.interface,
                             Arg(args, "duration", DefaultDuration),
                             Arg(args, "filter_str", None),
                             Arg(args, "output_file", None),
                             out)
    IN  [spawned |-> c.spawned,
         res |-> IF c.res.kind = "raise" /\ IsInstance(c.res.exc, "Exception")
                 THEN Return([success |-> FALSE, error |-> c.res.exc.msg])
                 ELSE c.res]

wireshark_capture_packets(args, t, out) ==
    LET output_file == Arg(args, "output_file", None)
        c == capture_packets(args.interface,
                             Arg(args, "duration", DefaultDuration),
                             Arg(args, "filter_str", None),
                             IF ~TruthyStr(output_file) THEN SynthesizedName(t)
                             ELSE output_file,
                             out)
    IN  [spawned |-> c.spawned,
         res |-> IF c.res.kind = "raise" /\ IsInstance(c.res.exc, "Exception")
                 THEN Return([success |-> FALSE, error |-> c.res.exc.msg])
                 ELSE c.res]

wireshark_read_capture(args, out) ==
    read_capture_file(args.file_path,
                      Arg(args, "filter_str", None),
                      Arg(args, "limit", DefaultLimit),
                      out)

wireshark_analyze(args, out) ==
    analyze_capture(args.file_path, args.analysis_type, out)

(***************************************************************************)
(* class WiresharkPromptStore and the tool that reads it.  The texts of    *)
(* the prompts are long; the model keeps a short text for each.            *)
(***************************************************************************)
PromptFilters == <<"w", "i", "r", "e", "s", "h", "a", "r", "k", "_", "f", "i", "l", "t", "e", "r", "s">>
PromptAnalysis == <<"w", "i", "r", "e", "s", "h", "a", "r", "k", "_", "a", "n", "a", "l", "y", "s", "i", "s">>
PromptCommands == <<"w", "i", "r", "e", "s", "h", "a", "r", "k", "_", "c", "o", "m", "m", "a", "n", "d", "s">>

\* self._prompts, in the dict's insertion order.
prompts ==
    << [id |-> PromptFilters, text |-> <<"f", "i", "l", "t", "e", "r", "s">>],
       [id |-> PromptAnalysis, text |-> <<"s", "t", "e", "p", "s">>],
       [id |-> PromptCommands, text |-> <<"c", "o", "m", "m", "a", "n", "d", "s">>] >>

\* prompt_id in self._prompts
PromptKnown(prompt_id) == \E i \in 1..Len(prompts) : prompts[i].id = prompt_id

\* WiresharkPromptStore.get: self._prompts.get(prompt_id), None for an unknown id.
prompt_store_get(prompt_id) ==
    IF PromptKnown(prompt_id)
    THEN prompts[CHOOSE i \in 1..Len(prompts) : prompts[i].id = prompt_id]
    ELSE None

\* The fixed parts of the error message of wireshark_get_prompt (the source's
\* text is Chinese; the model keeps its shape: prefix, the quoted id, suffix).
NotFoundPrefix == <<"n", "o", " ", "p", "r", "o", "m", "p", "t", " ", "'">>
NotFoundSuffix == <<"'">>

\* "if prompt": the prompts of the store are non-empty dicts, which are truthy;
\* the prompt is falsy exactly when get gave None, that is for an unknown id.
wireshark_get_prompt(args) ==
    LET prompt == prompt_store_get(args.prompt_id)
    IN  [spawned |-> <<>>,
         res |-> IF PromptKnown(args.prompt_id)
                 THEN Return([success |-> TRUE, prompt |-> prompt])
                 ELSE Return([success |-> FALSE,
                              error |-> NotFoundPrefix \o args.prompt_id \o NotFoundSuffix])]

(***************************************************************************)
(* The inputs: what callers send and what the host answers.                *)
(***************************************************************************)
Interfaces == {<<"1">>, <<"e", "n", "0">>}
Durations == {-1, 0, 5, 12}
CaptureFilters == {<<>>, <<"t", "c", "p">>}
OutputFiles == {<<>>, <<"o", ".", "p", "c", "a", "p">>}
FilePaths == {<<"a", ".", "p", "c", "a", "p">>, <<"n", "o", "f", "i", "l", "e">>}
DisplayFilters == {<<>>, <<"h", "t", "t", "p">>}
Limits == {-1, 0, 1, 25}
AnalysisTypes ==
    {SupportedKeys[i] : i \in 1..Len(SupportedKeys)}
        \cup {<<>>, <<"b", "o", "g", "u", "s">>, <<"H", "T", "T", "P">>}

\* An optional argument: left out, or supplied with one of vals.
Opt(name, vals) == {<<>>} \cup {name :> v : v \in vals}

CaptureArgs ==
    {("interface" :> i) @@ d @@ f @@ o :
        i \in Interfaces, d \in Opt("duration", Durations),
        f \in Opt("filter_str", CaptureFilters), o \in Opt("output_file", OutputFiles)}

ReadArgs ==
    {("file_path" :> p) @@ f @@ l :
        p \in FilePaths, f \in Opt("filter_str", DisplayFilters), l \in Opt("limit", Limits)}

AnalyzeArgs ==
    {("file_path" :> p) @@ ("analysis_type" :> a) : p \in FilePaths, a \in AnalysisTypes}

PromptIds ==
    {PromptFilters, PromptAnalysis, PromptCommands, <<>>, <<"b", "o", "g", "u", "s">>}

GetPromptArgs == {("prompt_id" :> i) : i \in PromptIds}

ExitCodes == {0, 1}
ExampleListing ==
    <<"1", ".", " ", "e", "n", "0", " ", "(", "W", "i", "-", "F", "i", ")", "\n",
      "2", ".", " ", "l", "o", "0", " ", "(", "L", "o", "o", "p", "b", "a", "c", "k", ")">>
Listings == {<<>>, ExampleListing}
StdoutTexts == {<<>>, <<"p", "k", "t", "s">>}
StderrTexts == {<<>>, <<"e", "r", "r">>}

\* Every text of at most n characters of the alphabet.
Alphabet == {"1", ".", " ", "\t", "\n", "e"}
Texts(n) == UNION {[1..k -> Alphabet] : k \in 0..n}

\* What the operating system does with a spawn of tshark printing one of outs.
Outcomes(t, outs) ==
    CASE t = "missing" -> {[kind |-> "FileNotFoundError"]}
      [] t = "noexec" -> {[kind |-> "PermissionError"]}
      [] t = "ok" -> {[kind |-> "completed", returncode |-> rc, stdout |-> o, stderr |-> e] :
                         rc \in ExitCodes, o \in outs, e \in StderrTexts}

NoCall == [op |-> "none", args |-> <<>>]
NoResult == [kind |-> "none"]

(***************************************************************************)
(* The state machine.                                                      *)
(***************************************************************************)
Init ==
    /\ pc = "start"
    /\ exitStatus = -1
    /\ tool \in {"ok", "missing", "noexec"}
    /\ startupCheck = "unknown"
    /\ sessions = 0
    /\ accepted = 0
    /\ now = ClockStart
    /\ listing \in Listings
    /\ call = NoCall
    /\ spawned = <<>>
    /\ result = NoResult

\* sys.exit(status)
Exit(status) ==
    /\ pc' = "exited"
    /\ exitStatus' = status
    /\ sessions' = 0

\* Variant: the failed install check is logged, and startup goes on.
MainCheck_no_exit ==
    /\ pc = "start"
    /\ \E out \in Outcomes(tool, StdoutTexts) :
          LET c == check_wireshark_installed(out)
          IN  IF c.res.kind = "return"
              THEN /\ pc' = "checked"
                   /\ startupCheck' = (IF c.res.value THEN "true" ELSE "false")
                   /\ UNCHANGED <<exitStatus, sessions>>
              ELSE /\ startupCheck' = "raised"
                   /\ Exit(1)
    /\ UNCHANGED <<tool, accepted, now, listing, call, spawned, result>>

\* __main__: the install check; sys.exit(1) when it is false, and the except
\* Exception clause (also sys.exit(1)) when it raises.
MainCheck ==
    /\ pc = "start"
    /\ \E out \in Outcomes(tool, StdoutTexts) :
          LET c == check_wireshark_installed(out)
          IN  IF c.res.kind = "return" /\ c.res.value
              THEN /\ pc' = "checked"
                   /\ startupCheck' = "true"
                   /\ UNCHANGED <<exitStatus, sessions>>
              ELSE /\ startupCheck' = (IF c.res.kind = "return" THEN "false" ELSE "raised")
                   /\ Exit(1)
    /\ UNCHANGED <<tool, accepted, now, listing, call, spawned, result>>

\* __main__: the interfaces are listed and logged, the SSE application is
\* created and uvicorn.run starts listening.
MainServe ==
    /\ pc = "checked"
    /\ \E out \in Outcomes(tool, {listing}) :
          LET c == get_available_interfaces(out)
          IN  IF c.res.kind = "return"
              THEN pc' = "serving" /\ UNCHANGED <<exitStatus, sessions>>
              ELSE Exit(1)
    /\ UNCHANGED <<tool, startupCheck, accepted, now, listing, call, spawned, result>>

\* uvicorn.run returns (the server is stopped) and the script ends.
MainShutdown ==
    /\ pc = "serving"
    /\ call = NoCall
    /\ Exit(0)
    /\ UNCHANGED <<tool, startupCheck, accepted, now, listing, call, spawned, result>>

\* handle_sse: a caller connects; the MCP server runs the session inside
\* server_lifespan, which raises when the install check is not true.
SessionConnect ==
    /\ pc = "serving"
    /\ call = NoCall
    /\ accepted < MaxSessions
    /\ \E out \in Outcomes(tool, StdoutTexts) :
          LET c == check_wireshark_installed(out)
          IN  IF c.res.kind = "return" /\ c.res.value
              THEN sessions' = sessions + 1 /\ accepted' = accepted + 1
              ELSE UNCHANGED <<sessions, accepted>>
    /\ UNCHANGED <<pc, exitStatus, tool, startupCheck, now, listing, call, spawned, result>>

SessionDisconnect ==
    /\ pc = "serving"
    /\ call = NoCall
    /\ sessions > 0
    /\ sessions' = sessions - 1
    /\ UNCHANGED <<pc, exitStatus, tool, startupCheck, accepted, now, listing, call, spawned, result>>

\* A tool call of an open session ends: what it asked for and how it ended.
Dispatch(op, args, c) ==
    /\ call' = [op |-> op, args |-> args]
    /\ spawned' = c.spawned
    /\ result' = c.res
    /\ UNCHANGED <<pc, exitStatus, tool, startupCheck, sessions, accepted, now, listing>>

CallCheckInstallation ==
    /\ pc = "serving" /\ sessions > 0 /\ call = NoCall
    /\ \E out \in Outcomes(tool, StdoutTexts) :
          Dispatch("wireshark_check_installation", <<>>,
                   wireshark_check_installation(<<>>, out))

CallGetInterfaces ==
    /\ pc = "serving" /\ sessions > 0 /\ call = NoCall
    /\ \E out \in Outcomes(tool, {listing}) :
          Dispatch("wireshark_get_interfaces", <<>>, wireshark_get_interfaces(<<>>, out))

CallCapture ==
    /\ pc = "serving" /\ sessions > 0 /\ call = NoCall
    /\ \E args \in CaptureArgs, out \in Outcomes(tool, StdoutTexts) :
          Dispatch("wireshark_capture_packets", args,
                   wireshark_capture_packets(args, now, out))

CallRead ==
    /\ pc = "serving" /\ sessions > 0 /\ call = NoCall
    /\ \E args \in ReadArgs, out \in Outcomes(tool, StdoutTexts) :
          Dispatch("wireshark_read_capture", args, wireshark_read_capture(args, out))

CallAnalyze ==
    /\ pc = "serving" /\ sessions > 0 /\ call = NoCall
    /\ \E args \in AnalyzeArgs, out \in Outcomes(tool, StdoutTexts) :
          Dispatch("wireshark_analyze", args, wireshark_analyze(args, out))

CallGetPrompt ==
    /\ pc = "serving" /\ sessions > 0 /\ call = NoCall
    /\ \E args \in GetPromptArgs :
          Dispatch("wireshark_get_prompt", args, wireshark_get_prompt(args))

\* The handler's return value (or its exception) is handed back to the MCP
\* server, which answers the caller; the session takes the next call.  The
\* handlers are synchronous: nothing else of the process runs before that.
Respond ==
    /\ pc = "serving"
    /\ call # NoCall
    /\ call' = NoCall
    /\ spawned' = <<>>
    /\ result' = NoResult
    /\ UNCHANGED <<pc, exitStatus, tool, startupCheck, sessions, accepted, now, listing>>

\* The wall clock advances.
Tick ==
    /\ call = NoCall
    /\ now < ClockStart + MaxTicks
    /\ now' = now + 1
    /\ UNCHANGED <<pc, exitStatus, tool, startupCheck, sessions, accepted, listing, call, spawned, result>>

\* The host changes: tshark is installed, removed or made non-executable.
EnvChange ==
    /\ pc # "exited"
    /\ call = NoCall
    /\ tool' \in {"ok", "missing", "noexec"} \ {tool}
    /\ UNCHANGED <<pc, exitStatus, startupCheck, sessions, accepted, now, listing, call, spawned, result>>

Next ==
    \/ MainCheck
    \/ MainServe
    \/ MainShutdown
    \/ SessionConnect
    \/ SessionDisconnect
    \/ CallCheckInstallation
    \/ CallGetInterfaces
    \/ CallCapture
    \/ CallRead
    \/ CallAnalyze
    \/ CallGetPrompt
    \/ Respond
    \/ Tick
    \/ EnvChange

Spec == Init /\ [][Next]_vars

(***************************************************************************)
(* The interface listing alone: a serving process with one open session,   *)
(* on a host whose tshark -D prints any text of at most MaxLen characters  *)
(* (or the listing of the source's comment), answers one listing call.     *)
(***************************************************************************)
InitListing ==
    /\ pc = "serving"
    /\ exitStatus = -1
    /\ tool = "ok"
    /\ startupCheck = "true"
    /\ sessions = 1
    /\ accepted = 1
    /\ now = ClockStart
    /\ listing \in Texts(MaxLen) \cup {ExampleListing}
    /\ call = NoCall
    /\ spawned = <<>>
    /\ result = NoResult

NextListing == CallGetInterfaces

SpecListing == InitListing /\ [][NextListing]_vars

(***************************************************************************)
(* Vocabulary of the properties.                                           *)
(***************************************************************************)
\* sub occurs in s
Contains(s, sub) ==
    \E i \in 0..(Len(s) - Len(sub)) : SubSeq(s, i + 1, i + Len(sub)) = sub

HasPrefix(s, p) == Len(s) >= Len(p) /\ SubSeq(s, 1, Len(p)) = p
HasSuffix(s, p) == Len(s) >= Len(p) /\ SubSeq(s, Len(s) - Len(p) + 1, Len(s)) = p

\* The integer a decimal numeral denotes (the reading of what IntToStr writes).
IsDigit(c) == \E d \in 1..10 : Digits[d] = c
DigitValue(c) == (CHOOSE d \in 1..10 : Digits[d] = c) - 1
RECURSIVE NatOf(_)
NatOf(s) ==
    IF s = <<>> THEN 0
    ELSE 10 * NatOf(SubSeq(s, 1, Len(s) - 1)) + DigitValue(s[Len(s)])
IsNumeral(s) ==
    LET body == IF s # <<>> /\ s[1] = "-" THEN Tail(s) ELSE s
    IN  /\ body # <<>>
        /\ \A i \in 1..Len(body) : IsDigit(body[i])
        /\ Len(body) > 1 => body[1] # "0"
Denotes(s, n) ==
    /\ IsNumeral(s)
    /\ n = (IF s[1] = "-" THEN 0 - NatOf(Tail(s)) ELSE NatOf(s))

\* argv holds flag followed by val / holds flag at all
FlagWith(argv, flag, val) ==
    \E k \in 1..(Len(argv) - 1) : argv[k] = flag /\ argv[k + 1] = val
HasFlag(argv, flag) == \E k \in 1..Len(argv) : argv[k] = flag

\* The last call asked for exactly one process, which ran to completion /
\* which the operating system could not start.
Ran == Len(spawned) = 1 /\ spawned[1].out.kind = "completed"
Unspawnable ==
    Len(spawned) = 1 /\ spawned[1].out.kind \in {"FileNotFoundError", "PermissionError"}

\* The last call returned a structured failure: success=false and an error message.
ReturnedFailure ==
    /\ result.kind = "return"
    /\ DOMAIN result.value = {"success", "error"}
    /\ result.value.success = FALSE
    /\ result.value.error # <<>>

\* The names of the fixed analysis table, as the documentation of
\* wireshark_analyze lists them.
TableNames ==
    {<<"c", "o", "n", "v", "e", "r", "s", "a", "t", "i", "o", "n", "s">>,
     <<"e", "n", "d", "p", "o", "i", "n", "t", "s">>,
     <<"p", "r", "o", "t", "o", "c", "o", "l", "s">>,
     <<"h", "t", "t", "p">>,
     <<"d", "n", "s">>}

(***************************************************************************)
(* C1.  An analysis-type name outside the fixed table makes analyze return *)
(* a failure whose message lists the valid names, and no process is        *)
(* spawned; a name of the table spawns exactly one process, whose argv is  *)
(* the statistics invocation with the selector the table maps the name to. *)
(***************************************************************************)
C1_AnalyzeValidatesBeforeSpawn ==
    call.op = "wireshark_analyze" =>
        IF call.args.analysis_type \notin TableNames
        THEN /\ spawned = <<>>
             /\ ReturnedFailure
             /\ \A name \in TableNames : Contains(result.value.error, name)
        ELSE /\ Len(spawned) = 1
             /\ spawned[1].argv = <<TSHARK, OptR, call.args.file_path, OptQ, OptZ,
                                    Selector(call.args.analysis_type)>>

C1_Witness ==
    /\ call.op = "wireshark_analyze"
    /\ call.args.analysis_type = <<"b", "o", "g", "u", "s">>
    /\ tool = "ok"
    /\ spawned = <<>>
    /\ ReturnedFailure

(***************************************************************************)
(* C2.  With tshark unavailable (not found, or not executable), the        *)
(* install check returns false and the interface listing returns an empty  *)
(* sequence; neither raises.                                               *)
(***************************************************************************)
C2_ProbesNeverRaise ==
    /\ (call.op = "wireshark_check_installation" /\ Unspawnable)
          => result = Return([installed |-> FALSE])
    /\ (call.op = "wireshark_get_interfaces" /\ Unspawnable)
          => result = Return([interfaces |-> <<>>])

(***************************************************************************)
(* C3.  When tshark cannot be spawned, each of the capture, read and       *)
(* analyze tools returns a structured failure (success=false and an error  *)
(* message); no exception leaves the handler.                              *)
(***************************************************************************)
C3_SpawnFailureIsStructured ==
    (/\ call.op \in {"wireshark_capture_packets", "wireshark_read_capture",
                     "wireshark_analyze"}
     /\ Unspawnable)
        => ReturnedFailure

(***************************************************************************)
(* C4.  The install check of startup comes before listening: when it does  *)
(* not return true the process has exited with a non-zero status and no    *)
(* session was ever accepted; the server is serving, or has accepted a     *)
(* session, only after that check returned true.                           *)
(***************************************************************************)
C4_CheckBeforeListening ==
    /\ startupCheck \in {"false", "raised"}
          => pc = "exited" /\ exitStatus # 0 /\ accepted = 0 /\ sessions = 0
    /\ (pc = "serving" \/ accepted > 0 \/ sessions > 0) => startupCheck = "true"
    /\ startupCheck = "unknown" => pc = "start"

C4_Witness ==
    /\ startupCheck = "false"
    /\ pc = "exited"
    /\ exitStatus = 1
    /\ accepted = 0

(***************************************************************************)
(* The argv of a capture and the output file of its result.                *)
(***************************************************************************)
\* name is "capture_<t>.pcap" for the time t
IsTimeStamped(name, t) ==
    /\ HasPrefix(name, CapturePrefix)
    /\ HasSuffix(name, PcapSuffix)
    /\ Len(name) > Len(CapturePrefix) + Len(PcapSuffix)
    /\ Denotes(SubSeq(name, Len(CapturePrefix) + 1, Len(name) - Len(PcapSuffix)), t)

\* The caller supplied the argument / supplied a string that is not empty.
Supplied(name) == name \in DOMAIN call.args
SuppliedNonEmpty(name) == name \in DOMAIN call.args /\ call.args[name] # <<>>

\* What a capture call does, given whether a filter and an output path are
\* supplied.
CaptureContract(filterGiven, pathGiven) ==
    LET argv == spawned[1].argv
        d == IF Supplied("duration") THEN call.args.duration ELSE 10
    IN  /\ Len(spawned) = 1
        /\ FlagWith(argv, OptI, call.args.interface)
        /\ \E k \in 1..(Len(argv) - 1) :
              /\ argv[k] = OptA
              /\ HasPrefix(argv[k + 1], DurationPrefix)
              /\ Denotes(SubSeq(argv[k + 1], Len(DurationPrefix) + 1, Len(argv[k + 1])), d)
        /\ HasFlag(argv, OptF) <=> filterGiven
        /\ filterGiven => FlagWith(argv, OptF, call.args.filter_str)
        /\ HasFlag(argv, OptW)
        /\ pathGiven => FlagWith(argv, OptW, call.args.output_file)
        /\ ~pathGiven => \E k \in 1..(Len(argv) - 1) :
                             argv[k] = OptW /\ IsTimeStamped(argv[k + 1], now)
        /\ Ran => /\ result.kind = "return"
                  /\ "output_file" \in DOMAIN result.value
                  /\ result.value.output_file \notin {None, <<>>}
                  /\ FlagWith(argv, OptW, result.value.output_file)

(* C5.  For every capture call the argv holds the interface token and a    *)
(* duration bound of exactly d (10 when left out), the capture filter flag *)
(* with the filter verbatim exactly when a filter is supplied, and the     *)
(* write-to-file flag, with the caller's path when one is supplied and a   *)
(* synthesized time-stamped name otherwise; the result of a process that   *)
(* ran names that file, non-empty.  A filter or a path is supplied when    *)
(* the argument is present and not the empty string.                       *)
C5_CaptureArgv ==
    call.op = "wireshark_capture_packets"
        => CaptureContract(SuppliedNonEmpty("filter_str"), SuppliedNonEmpty("output_file"))

\* The case of the specification: duration 5, interface "1", no filter, no path.
C5_Witness ==
    /\ call.op = "wireshark_capture_packets"
    /\ call.args = [interface |-> <<"1">>, duration |-> 5]
    /\ Ran
    /\ spawned[1].argv = <<TSHARK, OptI, <<"1">>, OptA,
                           <<"d", "u", "r", "a", "t", "i", "o", "n", ":", "5">>,
                           OptW, result.value.output_file>>
    /\ now = 10
    /\ result.value.output_file
          = <<"c", "a", "p", "t", "u", "r", "e", "_", "1", "0", ".", "p", "c", "a", "p">>

(***************************************************************************)
(* C6.  What the install check returns.                                    *)
(***************************************************************************)
(* C6 as stated: the install check returns true exactly when the version   *)
(* query could be spawned and started, whatever its exit status.           *)
C6_InstalledIffSpawned ==
    call.op = "wireshark_check_installation"
        => (result = Return([installed |-> TRUE]) <=> Ran)

(* C6 amended: the install check returns true exactly when the version     *)
(* query was spawned and exited with status 0; a process that starts and   *)
(* exits with a non-zero status yields false.                              *)
C6_InstalledIffExitZero ==
    call.op = "wireshark_check_installation"
        => /\ result = Return([installed |-> TRUE])
                 <=> (Ran /\ spawned[1].out.returncode = 0)
           /\ (Ran /\ spawned[1].out.returncode # 0)
                 => result = Return([installed |-> FALSE])

C6_Witness ==
    /\ call.op = "wireshark_check_installation"
    /\ Ran
    /\ spawned[1].out.returncode = 1
    /\ result = Return([installed |-> FALSE])

(***************************************************************************)
(* C7.  For a capture, read or analyze call whose process ran to           *)
(* completion, the result is returned (never raised), its success is true  *)
(* exactly when the exit status is 0, and its stdout and stderr are the    *)
(* captured texts unchanged.                                               *)
(***************************************************************************)
C7_SuccessIsExitZero ==
    (/\ call.op \in {"wireshark_capture_packets", "wireshark_read_capture",
                     "wireshark_analyze"}
     /\ Ran)
        => /\ result.kind = "return"
           /\ "error" \notin DOMAIN result.value
           /\ {"success", "stdout", "stderr"} \subseteq DOMAIN result.value
           /\ result.value.success <=> (spawned[1].out.returncode = 0)
           /\ result.value.stdout = spawned[1].out.stdout
           /\ result.value.stderr = spawned[1].out.stderr

C7_Witness ==
    /\ call.op = "wireshark_capture_packets"
    /\ Ran
    /\ spawned[1].out.returncode = 1
    /\ spawned[1].out.stderr = <<"e", "r", "r">>
    /\ result.kind = "return"
    /\ result.value.success = FALSE
    /\ result.value.stderr = <<"e", "r", "r">>

(***************************************************************************)
(* C8.  A capture whose duration is zero or negative.                      *)
(***************************************************************************)
NonPositiveCapture ==
    /\ call.op = "wireshark_capture_packets"
    /\ Supplied("duration")
    /\ call.args.duration <= 0

(* C8 as stated: such a call is rejected locally with a failure result and *)
(* spawns no process.                                                      *)
C8_NonPositiveDurationRejected ==
    NonPositiveCapture => (spawned = <<>> /\ ReturnedFailure)

(* C8 amended: the duration is not validated: such a call spawns exactly   *)
(* one process whose duration bound is the zero or negative number as      *)
(* given, and the result reports that process's exit status like any other *)
(* capture's.                                                              *)
C8_NonPositiveDurationPassedOn ==
    NonPositiveCapture =>
        /\ Len(spawned) = 1
        /\ \E k \in 1..(Len(spawned[1].argv) - 1) :
              LET tok == spawned[1].argv[k + 1]
              IN  /\ spawned[1].argv[k] = OptA
                  /\ HasPrefix(tok, DurationPrefix)
                  /\ Denotes(SubSeq(tok, Len(DurationPrefix) + 1, Len(tok)),
                             call.args.duration)
        /\ Ran => /\ result.kind = "return"
                  /\ result.value.success <=> (spawned[1].out.returncode = 0)

C8_Witness ==
    /\ NonPositiveCapture
    /\ call.args.duration = -1
    /\ Ran
    /\ spawned[1].argv[5] = <<"d", "u", "r", "a", "t", "i", "o", "n", ":", "-", "1">>
    /\ result.kind = "return"
    /\ result.value.success = TRUE

(***************************************************************************)
(* C9.  The records the interface listing returns for the text tshark -D   *)
(* printed (specification SpecListing).                                    *)
(***************************************************************************)
\* The listing call whose process ran and exited with status 0.
Listed ==
    /\ call.op = "wireshark_get_interfaces"
    /\ Ran
    /\ spawned[1].out.returncode = 0
    /\ result.kind = "return"

\* The lines of the printed text: the text between its first and last
\* character that is not white space, cut at the line breaks.  A line is
\* <<a, b>>: it lies between the breaks at a and b.
Printed == spawned[1].out.stdout
Inked == {i \in 1..Len(Printed) : Printed[i] \notin Whitespace}
Body == IF Inked = {} THEN <<>> ELSE SubSeq(Printed, SetMin(Inked), SetMax(Inked))
Breaks == {0, Len(Body) + 1} \cup {i \in 1..Len(Body) : Body[i] = "\n"}
LineSpans ==
    {sp \in Breaks \X Breaks :
        sp[1] < sp[2] /\ ~\E b \in Breaks : sp[1] < b /\ b < sp[2]}
LineOf(sp) == SubSeq(Body, sp[1] + 1, sp[2] - 1)

\* As the specification words it: the line is cut at its first run of white
\* space; the index is what precedes the run, without its trailing periods,
\* and the description is what follows the run.
WordedRecord(line) ==
    LET ws == {i \in 1..Len(line) : line[i] \in Whitespace}
        p == SetMin(ws)
        q == SetMax({j \in p..Len(line) : \A i \in p..j : line[i] \in Whitespace})
    IN  [index |-> StrRStrip(SubSeq(line, 1, p - 1), "."),
         interface |-> SubSeq(line, q + 1, Len(line))]
WordedSplits(line) == \E i \in 1..Len(line) : line[i] \in Whitespace

\* As the code does it: the line is cut at its first space character.
SpaceSplits(line) == \E i \in 1..Len(line) : line[i] = " "
IsSpaceRecord(rec, line) ==
    LET p == SetMin({i \in 1..Len(line) : line[i] = " "})
        token == SubSeq(line, 1, p - 1)
    IN  /\ rec.interface = SubSeq(line, p + 1, Len(line))
        /\ HasPrefix(token, rec.index)
        /\ \A i \in (Len(rec.index) + 1)..Len(token) : token[i] = "."
        /\ rec.index # <<>> => rec.index[Len(rec.index)] # "."

\* The returned records are, in the order of the lines, one per line that
\* splits, each standing in relation rel to its line.
RecordsInOrder(splits(_), rel(_, _)) ==
    LET kept == {sp \in LineSpans : splits(LineOf(sp))}
        recs == result.value.interfaces
    IN  /\ Len(recs) = Cardinality(kept)
        /\ \A sp \in kept :
              rel(recs[Cardinality({o \in kept : o[1] <= sp[1]})], LineOf(sp))

ExampleRecords ==
    << [index |-> <<"1">>,
        interface |-> <<"e", "n", "0", " ", "(", "W", "i", "-", "F", "i", ")">>],
       [index |-> <<"2">>,
        interface |-> <<"l", "o", "0", " ", "(", "L", "o", "o", "p", "b", "a", "c", "k", ")">>] >>

IsWordedRecord(rec, line) == rec = WordedRecord(line)

(* C9 as stated: each non-empty line is split on its first run of white    *)
(* space into the index (trailing period stripped) and the rest as the     *)
(* description, lines that do not split are dropped, and the records are   *)
(* the parsed lines in the printed order; the two example lines give the   *)
(* two example records.                                                    *)
C9_ParsedOnWhitespaceRun ==
    Listed =>
        /\ RecordsInOrder(WordedSplits, IsWordedRecord)
        /\ Printed = ExampleListing => result.value.interfaces = ExampleRecords

(* C9 amended: each non-empty line is split at its first space character   *)
(* (one space, not a run of white space: further spaces stay at the head   *)
(* of the description, and a tab does not split) into the index, with all  *)
(* its trailing periods stripped, and the rest as the description; lines   *)
(* without a space are dropped; the records are the parsed lines in the    *)
(* printed order, none merged or sorted; the two example lines give the    *)
(* two example records.                                                    *)
C9_ParsedOnFirstSpace ==
    Listed =>
        /\ RecordsInOrder(SpaceSplits, IsSpaceRecord)
        /\ Printed = ExampleListing => result.value.interfaces = ExampleRecords

C9_Witness ==
    /\ Listed
    /\ Printed = ExampleListing
    /\ result.value.interfaces = ExampleRecords

(***************************************************************************)
(* C10.  The argv of a read and the text it returns.                       *)
(***************************************************************************)
\* What a read call does, given whether a filter is supplied and whether the
\* record-limit flag is expected.
ReadContract(filterGiven, limitFlag) ==
    LET argv == spawned[1].argv
        n == IF Supplied("limit") THEN call.args.limit ELSE 100
    IN  /\ Len(spawned) = 1
        /\ Len(argv) = 3 + (IF filterGiven THEN 2 ELSE 0) + (IF limitFlag THEN 2 ELSE 0)
        /\ SubSeq(argv, 1, 3) = <<TSHARK, OptR, call.args.file_path>>
        /\ filterGiven => argv[4] = OptY /\ argv[5] = call.args.filter_str
        /\ limitFlag => /\ argv[Len(argv) - 1] = OptC
                        /\ Denotes(argv[Len(argv)], n)
        /\ ~limitFlag => ~HasFlag(argv, OptC)
        /\ Ran => /\ result.kind = "return"
                  /\ result.value.stdout = spawned[1].out.stdout

(* C10 as stated: every read call spawns exactly one process, whose argv   *)
(* is the read invocation for the path, with the display-filter flag       *)
(* carrying the filter exactly when a filter is supplied, and with the     *)
(* record-limit flag carrying n (the supplied integer, 100 when left out); *)
(* the stdout of the process is returned as it is.                         *)
C10_ReadArgvAsStated ==
    call.op = "wireshark_read_capture"
        => ReadContract(SuppliedNonEmpty("filter_str"), TRUE)

(* C10 amended: the same, except that the record-limit flag carries n      *)
(* exactly when n is not 0: a supplied limit of 0 adds no record-limit     *)
(* flag, and the read is unlimited.                                        *)
C10_ReadArgv ==
    call.op = "wireshark_read_capture"
        => ReadContract(SuppliedNonEmpty("filter_str"),
                        ~(Supplied("limit") /\ call.args.limit = 0))

C10_Witness ==
    /\ call.op = "wireshark_read_capture"
    /\ call.args = [file_path |-> <<"n", "o", "f", "i", "l", "e">>,
                    filter_str |-> <<"h", "t", "t", "p">>]
    /\ Ran
    /\ spawned[1].argv = <<TSHARK, OptR, <<"n", "o", "f", "i", "l", "e">>,
                           OptY, <<"h", "t", "t", "p">>, OptC, <<"1", "0", "0">>>>
    /\ result.kind = "return"
    /\ result.value.stdout = <<"p", "k", "t", "s">>

(***************************************************************************)
(* C11.  Every result the capture, read, analyze and get-prompt tools      *)
(* return is exactly one variant: either a failure, which carries an error *)
(* message, has success=false and carries none of the success fields       *)
(* (stdout, stderr, output file, prompt), or a result without an error     *)
(* field that carries success and success fields.                          *)
(***************************************************************************)
SuccessFields == {"stdout", "stderr", "output_file", "prompt"}

C11_OneVariant ==
    (/\ call.op \in {"wireshark_capture_packets", "wireshark_read_capture",
                     "wireshark_analyze", "wireshark_get_prompt"}
     /\ result.kind = "return")
        => LET fields == DOMAIN result.value
           IN  /\ "success" \in fields
               /\ result.value.success \in BOOLEAN
               /\ "error" \in fields
                     => /\ result.value.success = FALSE
                        /\ fields \cap SuccessFields = {}
               /\ "error" \notin fields => fields \cap SuccessFields # {}

\* The capture whose process could not be spawned: the handler's own except
\* clause returns the failure variant.
C11_Witness ==
    /\ call.op = "wireshark_capture_packets"
    /\ Unspawnable
    /\ result.kind = "return"
    /\ DOMAIN result.value = {"success", "error"}
    /\ result.value.success = FALSE

====
